---- MODULE Spec2Model ----
(***************************************************************************)
(* Model of frappe/model/workflow.py: the workflow engine of a document.   *)
(*                                                                         *)
(* A document carries a workflow state field and a lifecycle status        *)
(* (docstatus 0 draft, 1 submitted, 2 cancelled).  apply_workflow moves    *)
(* the state along the transitions of the Workflow definition, gated by    *)
(* the Workflow Action ledger; bulk_workflow_approval applies one action   *)
(* to a batch of documents, one database transaction per document.         *)
(***************************************************************************)
EXTENDS Integers, Sequences, FiniteSets, TLC

VARIABLES
    workflow,      \* the Workflow definition in force (states, transitions)
    db,            \* the database as the running transaction sees it
    committed,     \* the database as of the last commit
    message_log,   \* frappe.message_log of the running request
    last,          \* the most recent call: its inputs, outcome and pre-state
    nCalls,        \* number of calls made so far
    bulk,          \* bulk_workflow_approval: loop position, logs, indicator
    conc           \* concurrent apply_workflow requests, one per approver

vars == <<workflow, db, committed, message_log, last, nCalls, bulk, conc>>

----------------------------------------------------------------------------
(* Bounds of the model *)

\* calls made in one behaviour
MaxCalls == 2

\* rows of the Workflow Action table
MaxActions == 4

\* documents named in one bulk request
MaxBatch == 3

----------------------------------------------------------------------------
(* Values *)

\* Python's None
NoneV == "None"

Users == {"Administrator", "u1", "u2"}

DocIds == {"d1", "d2"}

\* a conversion that reads every doc_status as 0
CintZero(s) == 0

\* frappe.utils.cint on the doc_status strings of a Workflow Document State
Cint(s) ==
    CASE s = "0" -> 0
      [] s = "1" -> 1
      [] s = "2" -> 2
      [] OTHER -> 0

\* Python truthiness of a string-or-None value
Truthy(v) == v # NoneV /\ v # ""

----------------------------------------------------------------------------
(* Workflow definitions: rows of Workflow Document State and of            *)
(* Workflow Transition, in definition order.                               *)

StateRow(s, ds, uf, uv) ==
    [state |-> s, doc_status |-> ds, update_field |-> uf, update_value |-> uv]

TransitionRow(n, s, a, ns, c, self, mode) ==
    [name |-> n, state |-> s, action |-> a, next_state |-> ns, condition |-> c,
     allow_self_approval |-> self, multi_user_action_mode |-> mode]

WorkflowStates ==
    << StateRow("Draft", "0", "", ""),
       StateRow("Review", "0", "upd", "r"),
       StateRow("Approved", "1", "upd", "a"),
       StateRow("Cancelled", "2", "", "") >>

WorkflowA ==
    [name |-> "WorkflowA",
     states |-> WorkflowStates,
     transitions |->
      << TransitionRow("A1", "Draft", "Approve", "Review", "", 1, "Any"),
         TransitionRow("A2", "Review", "Approve", "Approved", "", 0, "All"),
         TransitionRow("A3", "Review", "Approve", "Draft", "doc.flag", 1, "Any"),
         TransitionRow("A4", "Review", "Reject", "Review", "", 1, "All"),
         TransitionRow("A5", "Approved", "Cancel", "Cancelled", "", 0, "Any"),
         TransitionRow("A6", "Approved", "Reject", "Review", "", 1, "Any"),
         TransitionRow("A7", "Draft", "Cancel", "Cancelled", "not doc.flag", 1, "Any"),
         TransitionRow("A8", "Cancelled", "Approve", "Approved", "", 1, "Any") >>]

WorkflowB ==
    [name |-> "WorkflowB",
     states |-> WorkflowStates,
     transitions |->
      << TransitionRow("B1", "Review", "Approve", "Draft", "not doc.flag", 0, "Any"),
         TransitionRow("B2", "Review", "Approve", "Approved", "", 1, "All"),
         TransitionRow("B3", "Draft", "Approve", "Review", "doc.flag", 0, "All"),
         TransitionRow("B4", "Draft", "Approve", "Approved", "", 1, "Any"),
         TransitionRow("B5", "Approved", "Approve", "Approved", "", 1, "Any"),
         TransitionRow("B6", "Approved", "Cancel", "Cancelled", "doc.flag and doc.missing.x", 1, "Any"),
         TransitionRow("B7", "Review", "Reject", "Approved", "doc.flag", 1, "Any"),
         TransitionRow("B8", "Cancelled", "Reject", "Cancelled", "", 1, "Any") >>]

Workflows == {WorkflowA, WorkflowB}

StateNames == {WorkflowStates[i].state : i \in DOMAIN WorkflowStates}

\* the value apply_workflow holds when no transition was found
NoTransition == TransitionRow(NoneV, NoneV, NoneV, NoneV, NoneV, 0, NoneV)

\* the Workflow Transition table: the rows of every Workflow
TransitionTable == WorkflowA.transitions \o WorkflowB.transitions

\* frappe.get_doc('Workflow Transition', name): the row of that name
TransitionDoc(name) ==
    LET rows == SelectSeq(TransitionTable, LAMBDA t : t.name = name)
    IN  IF rows = << >> THEN NoTransition ELSE rows[1]

----------------------------------------------------------------------------
(* Condition Evaluator *)

\* evaluate_condition(condition, doc): err when frappe.safe_eval raises,
\* val the truth value of the result otherwise
evaluate_condition(condition, doc) ==
    IF ~Truthy(condition) THEN [err |-> FALSE, val |-> TRUE]
    ELSE CASE condition = "doc.flag" -> [err |-> FALSE, val |-> doc.flag]
           [] condition = "not doc.flag" -> [err |-> FALSE, val |-> ~doc.flag]
           [] condition = "doc.flag and doc.missing.x" ->
                IF doc.flag THEN [err |-> TRUE, val |-> FALSE]
                ELSE [err |-> FALSE, val |-> FALSE]
           [] OTHER -> [err |-> TRUE, val |-> FALSE]

----------------------------------------------------------------------------
(* Transition Resolver *)

\* get_workflow(doc): nothing is found when the document carries no
\* workflow_def
get_workflow(doc) ==
    [found |-> doc.workflow_def # NoneV, wf |-> workflow]

\* the loop of get_transitions without the test of the condition
RECURSIVE TransitionsLoopAnyCondition(_, _, _, _, _)
TransitionsLoopAnyCondition(rows, i, current_state, doc, acc) ==
    IF i > Len(rows) THEN [res |-> "ok", transitions |-> acc]
    ELSE IF rows[i].state = current_state
         THEN IF evaluate_condition(rows[i].condition, doc).err
              THEN [res |-> "ConditionError", transitions |-> << >>]
              ELSE TransitionsLoopAnyCondition(rows, i + 1, current_state, doc,
                                               Append(acc, rows[i]))
         ELSE TransitionsLoopAnyCondition(rows, i + 1, current_state, doc, acc)

\* the loop of get_transitions with a condition that raises read as false
RECURSIVE TransitionsLoopSkipErrors(_, _, _, _, _)
TransitionsLoopSkipErrors(rows, i, current_state, doc, acc) ==
    IF i > Len(rows) THEN [res |-> "ok", transitions |-> acc]
    ELSE IF rows[i].state = current_state
         THEN LET c == evaluate_condition(rows[i].condition, doc)
              IN  IF c.err \/ ~c.val
                  THEN TransitionsLoopSkipErrors(rows, i + 1, current_state, doc, acc)
                  ELSE TransitionsLoopSkipErrors(rows, i + 1, current_state, doc,
                                                 Append(acc, rows[i]))
         ELSE TransitionsLoopSkipErrors(rows, i + 1, current_state, doc, acc)

\* the loop of get_transitions from row i on, acc the rows appended so far;
\* a condition that raises ends the loop with the exception
RECURSIVE TransitionsLoop(_, _, _, _, _)
TransitionsLoop(rows, i, current_state, doc, acc) ==
    IF i > Len(rows) THEN [res |-> "ok", transitions |-> acc]
    ELSE LET transition == rows[i]
         IN  IF transition.state = current_state
             THEN LET c == evaluate_condition(transition.condition, doc)
                  IN  IF c.err THEN [res |-> "ConditionError", transitions |-> << >>]
                      ELSE IF ~c.val
                           THEN TransitionsLoop(rows, i + 1, current_state, doc, acc)
                           ELSE TransitionsLoop(rows, i + 1, current_state, doc,
                                                Append(acc, transition))
             ELSE TransitionsLoop(rows, i + 1, current_state, doc, acc)

\* get_transitions(doc, workflow), for a caller who holds read permission
\* on the document
get_transitions(doc, wf) ==
    IF doc.is_new THEN [res |-> "ok", transitions |-> << >>]
    ELSE LET current_state == doc.workflow_state
         IN  IF ~Truthy(current_state)
             THEN [res |-> "WorkflowStateError", transitions |-> << >>]
             ELSE TransitionsLoop(wf.transitions, 1, current_state, doc, << >>)

----------------------------------------------------------------------------
(* Authorization Check *)

\* has_approval_access without the Administrator's exemption
has_approval_access_no_admin(user, doc, transition) ==
    \/ transition.allow_self_approval # 0
    \/ user # doc.owner

\* has_approval_access(user, doc, transition)
has_approval_access(user, doc, transition) ==
    \/ user = "Administrator"
    \/ transition.allow_self_approval # 0
    \/ user # doc.owner

----------------------------------------------------------------------------
(* Action Ledger: the Workflow Action table *)

ActionRow(d, s, u, st, src, prev) ==
    [reference_name |-> d, workflow_state |-> s, user |-> u, status |-> st,
     action_source |-> src, previous_user |-> prev]

\* the count without the filter on the user
open_action_count_any_user(actions, doc, state, user) ==
    Cardinality({i \in DOMAIN actions :
                    /\ actions[i].status # "Completed"
                    /\ actions[i].workflow_state = state
                    /\ actions[i].reference_name = doc.name})

\* other_user_open_action_count(doc, state, user)
other_user_open_action_count(actions, doc, state, user) ==
    Cardinality({i \in DOMAIN actions :
                    /\ actions[i].status # "Completed"
                    /\ actions[i].workflow_state = state
                    /\ actions[i].user # user
                    /\ actions[i].reference_name = doc.name})

\* update_completed_workflow_actions(doc, user, action): the acting user's
\* open rows for the document become Completed
update_completed_workflow_actions(actions, doc, user) ==
    [i \in DOMAIN actions |->
        IF /\ actions[i].reference_name = doc.name
           /\ actions[i].user = user
           /\ actions[i].status = "Open"
        THEN [actions[i] EXCEPT !.status = "Completed"]
        ELSE actions[i]]

\* the action source a new row carries for the action that created it
SourceOf(action) ==
    CASE action = "Forward" -> "Forward"
      [] action = "Add Additional Check" -> "Add Additional Check"
      [] OTHER -> "Normal"

\* create_workflow_actions(workflow, doc, user, possible_actions, action,
\* from_user): one new Open row for the target user at the document's state
create_workflow_actions(actions, doc, target_user, action, from_user) ==
    Append(actions, ActionRow(doc.name, doc.workflow_state, target_user, "Open",
                              SourceOf(action), from_user))

----------------------------------------------------------------------------
(* Document store: the lifecycle operations and the audit comments *)

\* a message of frappe.message_log
Msg(raises) == [raise_exception |-> raises]

\* what a lifecycle operation may do: fail or not, leave its row written
\* when it fails, print an informational message first, and fail through
\* frappe.throw or with a plain exception
LifecycleOutcomes ==
    { [fails |-> FALSE, dirty |-> FALSE, info |-> FALSE, thrown |-> FALSE],
      [fails |-> FALSE, dirty |-> FALSE, info |-> TRUE, thrown |-> FALSE],
      [fails |-> TRUE, dirty |-> TRUE, info |-> FALSE, thrown |-> TRUE],
      [fails |-> TRUE, dirty |-> TRUE, info |-> TRUE, thrown |-> FALSE],
      [fails |-> TRUE, dirty |-> FALSE, info |-> TRUE, thrown |-> TRUE] }

\* the outcome in which the operation succeeds silently
LifecycleOk == [fails |-> FALSE, dirty |-> FALSE, info |-> FALSE, thrown |-> FALSE]

\* the document as doc.save(), doc.submit() or doc.cancel() writes it
DocWritten(doc, op) ==
    [doc EXCEPT !.docstatus = CASE op = "submit" -> 1
                                [] op = "cancel" -> 2
                                [] OTHER -> @]

\* doc.save() / doc.submit() / doc.cancel() under the outcome env
RunLifecycle(base, doc, op, env) ==
    LET written == [base EXCEPT !.docs[doc.name] = DocWritten(doc, op)]
        info == IF env.info THEN << Msg(FALSE) >> ELSE << >>
    IN  IF ~env.fails
        THEN [ok |-> TRUE, thrown |-> FALSE, db |-> written,
              doc |-> DocWritten(doc, op), msgs |-> info]
        ELSE [ok |-> FALSE, thrown |-> env.thrown,
              db |-> IF env.dirty THEN written ELSE base,
              doc |-> doc,
              msgs |-> IF env.thrown THEN Append(info, Msg(TRUE)) ELSE info]

\* doc.add_comment('Workflow', text)
add_comment(base, doc) ==
    [base EXCEPT !.comments[doc.name] = @ + 1]

----------------------------------------------------------------------------
(* Transition Executor *)

\* the outcome of one apply_workflow call: res "ok" or the exception,
\* thrown whether it was raised through frappe.throw, db the database
\* the call leaves, doc the document object it leaves, op the lifecycle
\* operation it invoked, branch the path it took, tr the transition used
Outcome(res, thrown, base, doc, op, branch, tr, msgs) ==
    [res |-> res, thrown |-> thrown, db |-> base, doc |-> doc, op |-> op,
     branch |-> branch, tr |-> tr, msgs |-> msgs]

\* frappe.throw(msg, exc) before anything was written
Throw(exc, base, doc, branch, tr) ==
    Outcome(exc, TRUE, base, doc, "none", branch, tr, << Msg(TRUE) >>)

\* an exception raised by the interpreter or by a collaborator
Raise(exc, base, doc, branch, tr) ==
    Outcome(exc, FALSE, base, doc, "none", branch, tr, << >>)

\* the loop with a break at the first match
RECURSIVE FindFirstTransition(_, _, _, _, _)
FindFirstTransition(transitions, i, action, doc, transition) ==
    IF i > Len(transitions) THEN [err |-> FALSE, tr |-> transition]
    ELSE LET c == evaluate_condition(transitions[i].condition, doc)
         IN  IF c.err THEN [err |-> TRUE, tr |-> transition]
             ELSE IF c.val /\ transitions[i].action = action
                  THEN [err |-> FALSE, tr |-> transitions[i]]
                  ELSE FindFirstTransition(transitions, i + 1, action, doc, transition)

\* the loop that finds the transition of the requested action among the
\* available ones: every match overwrites the one before it
RECURSIVE FindTransition(_, _, _, _, _)
FindTransition(transitions, i, action, doc, transition) ==
    IF i > Len(transitions) THEN [err |-> FALSE, tr |-> transition]
    ELSE LET t == transitions[i]
             c == evaluate_condition(t.condition, doc)
         IN  IF c.err THEN [err |-> TRUE, tr |-> transition]
             ELSE IF ~c.val
                  THEN FindTransition(transitions, i + 1, action, doc, transition)
                  ELSE IF t.action = action
                       THEN FindTransition(transitions, i + 1, action, doc, t)
                       ELSE FindTransition(transitions, i + 1, action, doc, transition)

\* a pseudo-transition into the target of the first declared transition
StartTransitionToTarget(wf) ==
    [NoTransition EXCEPT !.allow_self_approval = 1,
                         !.next_state = wf.transitions[1].next_state,
                         !.multi_user_action_mode = "Any"]

\* the pseudo-transition of the action "Start"
StartTransition(wf) ==
    [NoTransition EXCEPT !.allow_self_approval = 1,
                         !.next_state = wf.transitions[1].state,
                         !.multi_user_action_mode = "Any"]

\* the effective transition: found tells whether the value is truthy
ResolveTransition(doc, wf, action, transition_name) ==
    IF Truthy(transition_name)
    THEN LET t == TransitionDoc(transition_name)
         IN  IF t.name = NoneV
             THEN [res |-> "DoesNotExistError", thrown |-> TRUE, found |-> FALSE, tr |-> t]
             ELSE [res |-> "ok", thrown |-> FALSE, found |-> TRUE, tr |-> t]
    ELSE IF action = "Start"
         THEN IF wf.transitions = << >>
              THEN [res |-> "IndexError", thrown |-> FALSE, found |-> FALSE,
                    tr |-> NoTransition]
              ELSE [res |-> "ok", thrown |-> FALSE, found |-> TRUE,
                    tr |-> StartTransition(wf)]
         ELSE LET g == get_transitions(doc, wf)
              IN  IF g.res # "ok"
                  THEN [res |-> g.res, thrown |-> g.res = "WorkflowStateError",
                        found |-> FALSE, tr |-> NoTransition]
                  ELSE LET f == FindTransition(g.transitions, 1, action, doc, NoTransition)
                       IN  IF f.err
                           THEN [res |-> "ConditionError", thrown |-> FALSE,
                                 found |-> FALSE, tr |-> NoTransition]
                           ELSE [res |-> "ok", thrown |-> FALSE,
                                 found |-> f.tr.name # NoneV, tr |-> f.tr]

\* the test that knows the source 'Pre-Check' alone
is_pre_check_only(action_source) ==
    Truthy(action_source) /\ action_source = "Pre-Check"

\* action_source and action_source in ['Pre-Check', 'Add Additional Check']
is_pre_check_action(action_source) ==
    Truthy(action_source) /\ action_source \in {"Pre-Check", "Add Additional Check"}

\* the condition under which apply_workflow does not advance the state
Gated(base, doc, user, transition, action_source) ==
    \/ /\ transition.multi_user_action_mode = "All"
       /\ other_user_open_action_count(base.actions, doc, transition.state, user) > 0
    \/ is_pre_check_action(action_source)

\* the target without the override for "Reject"
TargetStateDeclared(wf, transition, action) == transition.next_state

\* the state the advancing branch writes into the state field
TargetState(wf, transition, action) ==
    IF action = "Reject" THEN wf.states[1].state ELSE transition.next_state

\* a table that picks the operation by the target docstatus alone
LifecycleOpByTarget(docstatus, new_docstatus) ==
    IF new_docstatus = 0 THEN "save"
    ELSE IF new_docstatus = 1 THEN "submit"
    ELSE "cancel"

\* a table whose last branch saves
LifecycleOpSaveOtherwise(docstatus, new_docstatus) ==
    IF docstatus = 0 /\ new_docstatus = 0 THEN "save"
    ELSE IF docstatus = 0 /\ new_docstatus = 1 THEN "submit"
    ELSE IF docstatus = 1 /\ new_docstatus = 1 THEN "save"
    ELSE IF docstatus = 1 /\ new_docstatus = 2 THEN "cancel"
    ELSE "save"

\* the lifecycle operation for (doc.docstatus, new_docstatus)
LifecycleOp(docstatus, new_docstatus) ==
    IF docstatus = 0 /\ new_docstatus = 0 THEN "save"
    ELSE IF docstatus = 0 /\ new_docstatus = 1 THEN "submit"
    ELSE IF docstatus = 1 /\ new_docstatus = 1 THEN "save"
    ELSE IF docstatus = 1 /\ new_docstatus = 2 THEN "cancel"
    ELSE "illegal"

\* the branch without the completion of the acting user's actions
ForwardKeepsOpen(base, doc, user, action, next_user) ==
    LET made == [base EXCEPT !.actions =
                    create_workflow_actions(@, doc, next_user, action, user)]
    IN  Outcome("ok", FALSE, add_comment(made, doc), doc, "none", "forward",
                NoTransition, << >>)

\* the branch of apply_workflow for 'Forward' and 'Add Additional Check'
ForwardBranch(base, doc, user, action, next_user) ==
    LET done == [base EXCEPT !.actions = update_completed_workflow_actions(@, doc, user)]
        made == [done EXCEPT !.actions =
                    create_workflow_actions(@, doc, next_user, action, user)]
    IN  Outcome("ok", FALSE, add_comment(made, doc), doc, "none", "forward",
                NoTransition, << >>)

\* the branch that completes the acting user's action and keeps the state
GatedBranch(base, doc, user, transition, action_source, previous_user) ==
    LET done == [base EXCEPT !.actions = update_completed_workflow_actions(@, doc, user)]
        noted == add_comment(done, doc)
        made == IF is_pre_check_action(action_source) /\ Truthy(previous_user)
                THEN [noted EXCEPT !.actions =
                        create_workflow_actions(@, doc, previous_user, "", user)]
                ELSE noted
    IN  Outcome("ok", FALSE, made, doc, "none", "gated", transition, << >>)

\* the branch that writes the state field and drives the lifecycle
AdvanceBranch(base, doc, wf, action, transition, env) ==
    LET target == TargetState(wf, transition, action)
        doc1 == [doc EXCEPT !.workflow_action = action, !.workflow_state = target]
        rows == SelectSeq(wf.states, LAMBDA d : d.state = target)
    IN  IF rows = << >> THEN Raise("IndexError", base, doc1, "advance", transition)
        ELSE LET next_state == rows[1]
                 doc2 == IF Truthy(next_state.update_field)
                         THEN [doc1 EXCEPT !.upd = next_state.update_value]
                         ELSE doc1
                 new_docstatus == Cint(next_state.doc_status)
                 op == LifecycleOp(doc2.docstatus, new_docstatus)
             IN  IF op = "illegal"
                 THEN Throw("IllegalDocStatus", base, doc2, "advance", transition)
                 ELSE LET r == RunLifecycle(base, doc2, op, env)
                      IN  IF r.ok
                          THEN Outcome("ok", FALSE, add_comment(r.db, r.doc), r.doc, op,
                                       "advance", transition, r.msgs)
                          ELSE Outcome("LifecycleError", r.thrown, r.db, r.doc, op,
                                       "advance", transition, r.msgs)

\* apply_workflow(doc, action, transition_name, possible_actions, next_user,
\* action_source, previous_user, comment) by the session user, on the
\* database base, with env the outcome of the lifecycle operation
apply_workflow(base, doc, user, action, transition_name, next_user, action_source, previous_user, env) ==
    LET w == get_workflow(doc)
    IN  IF ~w.found THEN Throw("NoWorkflow", base, doc, "none", NoTransition)
        ELSE IF action \in {"Forward", "Add Additional Check"}
        THEN ForwardBranch(base, doc, user, action, next_user)
        ELSE LET t == ResolveTransition(doc, w.wf, action, transition_name)
             IN  IF t.res # "ok"
                 THEN IF t.thrown THEN Throw(t.res, base, doc, "none", t.tr)
                      ELSE Raise(t.res, base, doc, "none", t.tr)
                 ELSE IF ~t.found
                 THEN Throw("WorkflowTransitionError", base, doc, "none", t.tr)
                 ELSE IF ~has_approval_access(user, doc, t.tr)
                 THEN Throw("SelfApprovalError", base, doc, "none", t.tr)
                 ELSE IF Gated(base, doc, user, t.tr, action_source)
                 THEN GatedBranch(base, doc, user, t.tr, action_source, previous_user)
                 ELSE AdvanceBranch(base, doc, w.wf, action, t.tr, env)

----------------------------------------------------------------------------
(* Save-Time Validator *)

\* the outcome of validate_workflow: res "ok" or the exception, doc the
\* document object it leaves, path the statement at which it returned or
\* raised, looked whether get_transitions was called
Validated(res, doc, path, looked) ==
    [res |-> res, doc |-> doc, path |-> path, looked |-> looked]

\* doc._doc_before_save: the persisted document as loaded before the save,
\* or None when there is none
Snapshot(exists, doc) == [exists |-> exists, doc |-> doc]

\* the first return without the test of the previous state
AllowedForOwner(doc, user, current_state, next_state, default_state) ==
    IF user = doc.owner THEN "owner"
    ELSE IF doc.workflow_action = "Reject" /\ next_state = default_state THEN "reject"
    ELSE "no"

\* the two returns that precede every check: the owner saving a document
\* that was in the default state, and a rejection back to the default state
AllowedUnconditionally(doc, user, current_state, next_state, default_state) ==
    IF user = doc.owner /\ current_state = default_state THEN "owner"
    ELSE IF doc.workflow_action = "Reject" /\ next_state = default_state THEN "reject"
    ELSE "no"

\* the test of the transitions that looks at any transition of the workflow
TransitionToAnywhere(transitions, next_state) == transitions

\* [d for d in transitions if d.next_state == next_state]
TransitionTo(transitions, next_state) ==
    SelectSeq(transitions, LAMBDA d : d.next_state = next_state)

\* validate_workflow(doc) for the session user, before the snapshot
\* doc._doc_before_save
validate_workflow(doc, before, user) ==
    LET w == get_workflow(doc)
    IN  IF ~w.found THEN Validated("AttributeError", doc, "workflow", FALSE)
        ELSE
        LET wf == w.wf
            before_state == IF before.exists THEN before.doc.workflow_state ELSE NoneV
            next_state == IF ~Truthy(doc.workflow_state) THEN wf.states[1].state
                          ELSE doc.workflow_state
            doc1 == [doc EXCEPT !.workflow_state = next_state]
            current_state == IF ~Truthy(before_state) THEN wf.states[1].state
                             ELSE before_state
            default_state == wf.states[1].state
            allowed == AllowedUnconditionally(doc1, user, current_state, next_state,
                                              default_state)
            state_row == SelectSeq(wf.states, LAMBDA d : d.state = current_state)
        IN  IF allowed # "no" THEN Validated("ok", doc1, allowed, FALSE)
            ELSE IF state_row = << >>
            THEN Validated("ValidationError", doc1, "state_row", FALSE)
            ELSE IF current_state = next_state
            THEN Validated("ok", doc1, "same", FALSE)
            ELSE IF ~before.exists
            THEN Validated("WorkflowPermissionError", doc1, "no_snapshot", FALSE)
            ELSE LET g == get_transitions(before.doc, get_workflow(before.doc).wf)
                 IN  IF g.res # "ok" THEN Validated(g.res, doc1, "get_transitions", TRUE)
                     ELSE IF TransitionTo(g.transitions, next_state) = << >>
                     THEN Validated("WorkflowPermissionError", doc1, "transition", TRUE)
                     ELSE Validated("ok", doc1, "transition", TRUE)

----------------------------------------------------------------------------
(* The documents and the ledger a behaviour starts from *)

Doc(name, owner, state, docstatus, flag, wfdef) ==
    [name |-> name, owner |-> owner, workflow_state |-> state,
     docstatus |-> docstatus, flag |-> flag, upd |-> "",
     workflow_def |-> wfdef, workflow_action |-> NoneV, is_new |-> FALSE]

\* the docstatus the definition declares for a state ("" is a document
\* whose state field was never set)
DocStatusOf(state) ==
    LET rows == SelectSeq(WorkflowStates, LAMBDA d : d.state = state)
    IN  IF rows = << >> THEN 0 ELSE Cint(rows[1].doc_status)

UserOrder == << "Administrator", "u1", "u2" >>

\* one Open row per user of S for document d at the given state
OpenRows(d, state, S) ==
    LET keep == SelectSeq(UserOrder, LAMBDA u : u \in S)
    IN  [i \in DOMAIN keep |-> ActionRow(d, state, keep[i], "Open", "Normal", NoneV)]

\* the users holding an open action when a behaviour starts
SeedSets == { {}, {"u1", "u2"} }

\* d1 starts in any state, aligned with its docstatus; d2 is owned by u2,
\* sits in Review and has one open action of u1
InitDb(owner, state, flag, wfdef, S) ==
    [docs |-> [d \in DocIds |->
                 IF d = "d1"
                 THEN Doc("d1", owner, state, DocStatusOf(state), flag, wfdef)
                 ELSE Doc("d2", "u2", "Review", 0, TRUE, "Workflow")],
     actions |-> OpenRows("d1", state, S) \o OpenRows("d2", "Review", {"u1"}),
     comments |-> [d \in DocIds |-> 0]]

\* d1 is owned by u1; in a few starts it is owned by the Administrator, has
\* no state yet, or carries no workflow_def
InitDbs ==
    {InitDb("u1", state, flag, "Workflow", S) :
        state \in StateNames, flag \in BOOLEAN, S \in SeedSets}
    \cup {InitDb("Administrator", "Review", flag, "Workflow", {}) : flag \in BOOLEAN}
    \cup {InitDb("u1", "", FALSE, "Workflow", {}),
          InitDb("u1", "Draft", FALSE, NoneV, {})}

NoOutcome == Outcome("none", FALSE, << >>, << >>, "none", "none", NoTransition, << >>)

NoCall ==
    [op |-> "none", d |-> NoneV, user |-> NoneV, action |-> NoneV,
     transition_name |-> NoneV, next_user |-> NoneV, action_source |-> NoneV,
     previous_user |-> NoneV, pre |-> << >>, doc |-> << >>, out |-> NoOutcome,
     gt |-> << >>, before |-> << >>, val |-> << >>]

BulkIdle ==
    [pc |-> "idle", docnames |-> << >>, idx |-> 1, user |-> NoneV,
     action |-> NoneV, transition |-> NoneV, failed_transactions |-> << >>,
     successful_transactions |-> << >>, indicator |-> NoneV, items |-> << >>]

ConcIdle == << >>

Init ==
    /\ workflow \in Workflows
    /\ db \in InitDbs
    /\ committed = db
    /\ message_log = << >>
    /\ last = NoCall
    /\ nCalls = 0
    /\ bulk = BulkIdle
    /\ conc = ConcIdle

----------------------------------------------------------------------------
(* Single requests *)

Input(user, action, transition_name, next_user, action_source, previous_user) ==
    [user |-> user, action |-> action, transition_name |-> transition_name,
     next_user |-> next_user, action_source |-> action_source,
     previous_user |-> previous_user]

\* the transitions a request may name explicitly
ExplicitNames == {"A2", "B3", "B5", "B8"}

\* the requests made of apply_workflow
ApplyInputs ==
    {Input(u, a, NoneV, n, NoneV, NoneV) :
        u \in Users, a \in {"Forward", "Add Additional Check"}, n \in {"u2"}}
    \cup {Input(u, a, NoneV, NoneV, sp[1], sp[2]) :
        u \in Users, a \in {"Approve", "Reject", "Cancel", "Start"},
        sp \in {<<"Normal", NoneV>>, <<"Pre-Check", "u2">>,
                <<"Add Additional Check", NoneV>>}}
    \cup {Input(u, a, n, NoneV, NoneV, NoneV) :
        u \in {"u1", "u2"}, n \in ExplicitNames, a \in {"Approve", "Reject"}}

\* the outcomes of the lifecycle operation a single request is run under
RequestOutcomes == {e \in LifecycleOutcomes : ~e.info}

\* the outcomes env that make a difference to the call: a call that invokes
\* no lifecycle operation is run under the silent outcome alone
Relevant(out, env) == env = LifecycleOk \/ out.op # "none"

\* one request to apply_workflow for document d1, as loaded from the
\* database, in a transaction of its own
Apply(in, env) ==
    /\ last.op = "none"
    /\ nCalls < MaxCalls
    /\ \E out \in {apply_workflow(db, db.docs["d1"], in.user, in.action,
                                   in.transition_name, in.next_user,
                                   in.action_source, in.previous_user, env)} :
           /\ Len(out.db.actions) <= MaxActions
           /\ Relevant(out, env)
           /\ db' = out.db
           /\ last' = [NoCall EXCEPT !.op = "apply", !.d = "d1", !.user = in.user,
                          !.action = in.action, !.transition_name = in.transition_name,
                          !.next_user = in.next_user, !.action_source = in.action_source,
                          !.previous_user = in.previous_user, !.pre = db,
                          !.doc = db.docs["d1"], !.out = out]
    /\ nCalls' = nCalls + 1
    /\ UNCHANGED <<workflow, committed, message_log, bulk, conc>>

\* one request to get_transitions for a document, persisted or new
GetTransitions(d, is_new) ==
    /\ last.op = "none"
    /\ nCalls < MaxCalls
    /\ LET doc == [db.docs[d] EXCEPT !.is_new = is_new]
       IN  last' = [NoCall EXCEPT !.op = "get_transitions", !.d = d, !.pre = db,
                       !.doc = doc, !.gt = get_transitions(doc, workflow)]
    /\ nCalls' = nCalls + 1
    /\ UNCHANGED <<workflow, db, committed, message_log, bulk, conc>>

\* the request ends: its transaction is committed when the handler
\* returned, rolled back when an exception left it
EndRequest ==
    /\ last.op \in {"apply", "get_transitions"}
    /\ IF last.op = "apply" /\ last.out.res # "ok"
       THEN db' = committed /\ committed' = committed
       ELSE committed' = db /\ db' = db
    /\ last' = NoCall
    /\ UNCHANGED <<workflow, message_log, nCalls, bulk, conc>>

Next ==
    \/ \E in \in ApplyInputs, env \in RequestOutcomes : Apply(in, env)
    \/ \E d \in DocIds, is_new \in BOOLEAN : GetTransitions(d, is_new)
    \/ EndRequest

Spec == Init /\ [][Next]_vars

----------------------------------------------------------------------------
(* Bulk Executor *)

\* a defaultdict(list): append m to the list of key k
DictAppend(f, k, m) ==
    IF k \in DOMAIN f THEN [f EXCEPT ![k] = Append(@, m)] ELSE f @@ (k :> << m >>)

\* frappe.get_doc(doctype, docname) followed by apply_workflow(doc, action,
\* transition_name=transition): the body of the try block before the commit
TryApply(base, docname, user, action, transition, env) ==
    IF docname \notin DOMAIN base.docs
    THEN Throw("DoesNotExistError", base, [name |-> docname], "none", NoTransition)
    ELSE apply_workflow(base, base.docs[docname], user, action, transition,
                        NoneV, NoneV, NoneV, env)

\* the item without the rollback of the except block
AfterItemNoRollback(ok, work, saved) ==
    [db |-> work, committed |-> IF ok THEN work ELSE saved]

\* the database after the item: frappe.db.commit() when apply_workflow
\* returned, frappe.db.rollback() when it raised
AfterItem(ok, work, saved) ==
    [db |-> IF ok THEN work ELSE saved, committed |-> IF ok THEN work ELSE saved]

\* the except block: an exception raised while the message log is empty is
\* logged as a failure of the document
ExceptLog(failed, docname, ok, log) ==
    IF ~ok /\ log = << >>
    THEN DictAppend(failed, docname, [docname |-> docname, message |-> "exception"])
    ELSE failed

\* the loop of the finally block over the messages of the log
RECURSIVE FinallyLoop(_, _, _, _)
FinallyLoop(logs, docname, messages, i) ==
    IF i > Len(messages) THEN logs
    ELSE LET message_dict == [docname |-> docname, message |-> "message"]
         IN  IF messages[i].raise_exception
             THEN FinallyLoop([logs EXCEPT !.failed = DictAppend(@, docname, message_dict)],
                              docname, messages, i + 1)
             ELSE FinallyLoop([logs EXCEPT !.successful = DictAppend(@, docname, message_dict)],
                              docname, messages, i + 1)

\* the finally block: when the except block logged nothing, the messages of
\* the log decide, and an empty log counts as a success
FinallyLog(logs, docname, message_dict_set, log) ==
    IF message_dict_set THEN logs
    ELSE IF log # << >>
         THEN FinallyLoop(logs, docname, log, 1)
         ELSE [logs EXCEPT !.successful =
                  DictAppend(@, docname, [docname |-> docname, message |-> NoneV])]

\* the indicator of the report
Indicator(failed_transactions, successful_transactions) ==
    IF DOMAIN failed_transactions # {} /\ DOMAIN successful_transactions # {}
    THEN "orange"
    ELSE IF DOMAIN failed_transactions # {} THEN "red"
    ELSE "green"

\* the batches a bulk request may name
Batches ==
    UNION {[1..n -> DocIds] : n \in 0..MaxBatch}

\* the outcomes of the lifecycle operation an item is run under
ItemOutcomes == LifecycleOutcomes

\* bulk_workflow_approval is called: the logs are empty, the message log is
\* cleared, docnames is parsed
BulkStart(docnames, user, action, transition) ==
    /\ bulk.pc = "idle"
    /\ bulk' = [BulkIdle EXCEPT !.pc = "loop", !.docnames = docnames, !.user = user,
                   !.action = action, !.transition = transition]
    /\ message_log' = << >>
    /\ UNCHANGED <<workflow, db, committed, last, nCalls, conc>>

\* one iteration of the loop: try, except and finally for docnames[idx]
\* (show_progress publishes nothing for batches of fewer than 5 documents)
BulkItem(env) ==
    /\ bulk.pc = "loop"
    /\ bulk.idx <= Len(bulk.docnames)
    /\ LET docname == bulk.docnames[bulk.idx]
       IN  \E out \in {TryApply(db, docname, bulk.user, bulk.action,
                                 bulk.transition, env)} :
             LET ok == out.res = "ok"
                 log == message_log \o out.msgs
                 failed1 == ExceptLog(bulk.failed_transactions, docname, ok, log)
                 logs == FinallyLog([failed |-> failed1,
                                     successful |-> bulk.successful_transactions],
                                    docname, failed1 # bulk.failed_transactions, log)
                 after == AfterItem(ok, out.db, committed)
             IN  /\ Relevant(out, env)
                 /\ Len(out.db.actions) <= MaxActions
                 /\ db' = after.db
                 /\ committed' = after.committed
                 /\ message_log' = << >>
                 /\ bulk' = [bulk EXCEPT
                       !.idx = @ + 1,
                       !.failed_transactions = logs.failed,
                       !.successful_transactions = logs.successful,
                       !.items = Append(@, [docname |-> docname, ok |-> ok,
                                            res |-> out.res, msgs |-> out.msgs,
                                            before |-> committed, work |-> out.db,
                                            db |-> after.db,
                                            committed |-> after.committed,
                                            failed_transactions |-> logs.failed,
                                            successful_transactions |-> logs.successful])]
    /\ UNCHANGED <<workflow, last, nCalls, conc>>

\* the loop is over: the indicator is computed and the two logs printed
BulkReport ==
    /\ bulk.pc = "loop"
    /\ bulk.idx > Len(bulk.docnames)
    /\ bulk' = [bulk EXCEPT !.pc = "done",
                   !.indicator = Indicator(bulk.failed_transactions,
                                           bulk.successful_transactions)]
    /\ UNCHANGED <<workflow, db, committed, message_log, last, nCalls, conc>>

\* the documents a bulk behaviour starts from
BulkInitDbs ==
    {InitDb("u1", state, flag, "Workflow", {}) :
        state \in {"Draft", "Review", "Approved"}, flag \in BOOLEAN}

BulkInit ==
    /\ workflow \in Workflows
    /\ db \in BulkInitDbs
    /\ committed = db
    /\ message_log \in {<< >>, << Msg(FALSE) >>}
    /\ last = NoCall
    /\ nCalls = 0
    /\ bulk = BulkIdle
    /\ conc = ConcIdle

BulkNext ==
    \/ \E docnames \in Batches, user \in {"u1"}, action \in {"Approve", "Cancel"},
          transition \in {NoneV, "B5"} :
            BulkStart(docnames, user, action, transition)
    \/ \E env \in ItemOutcomes : BulkItem(env)
    \/ BulkReport

SpecBulk == BulkInit /\ [][BulkNext]_vars

----------------------------------------------------------------------------
(* Saves outside the Transition Executor.  A form or an import hands over  *)
(* the document with the state field it wants; validate_workflow runs      *)
(* before the row is written.                                              *)

\* the documents a save behaviour starts from: those of a single request,
\* and one whose persisted state is no state of the workflow
SaveInitDbs ==
    InitDbs \cup {InitDb("u2", "Legacy", flag, "Workflow", {}) : flag \in BOOLEAN}

SaveInit ==
    /\ workflow \in Workflows
    /\ db \in SaveInitDbs
    /\ committed = db
    /\ message_log = << >>
    /\ last = NoCall
    /\ nCalls = 0
    /\ bulk = BulkIdle
    /\ conc = ConcIdle

\* the values a save may carry in the state field
SaveStates == StateNames \cup {""}

\* one save of document d1 by user: the document as persisted, with the
\* state field and the recorded workflow action the caller set; has_before
\* tells whether the persisted document was loaded as doc._doc_before_save.
\* The row is written when validate_workflow returns.
Save(user, state, action, has_before) ==
    /\ last.op = "none"
    /\ nCalls < MaxCalls
    /\ LET doc == [db.docs["d1"] EXCEPT !.workflow_state = state,
                                        !.workflow_action = action,
                                        !.is_new = ~has_before]
           before == Snapshot(has_before, db.docs["d1"])
       IN  \E val \in {validate_workflow(doc, before, user)} :
             /\ db' = IF val.res = "ok"
                      THEN [db EXCEPT !.docs["d1"] = [val.doc EXCEPT !.is_new = FALSE]]
                      ELSE db
             /\ last' = [NoCall EXCEPT !.op = "validate", !.d = "d1", !.user = user,
                            !.pre = db, !.doc = doc, !.before = before, !.val = val]
    /\ nCalls' = nCalls + 1
    /\ UNCHANGED <<workflow, committed, message_log, bulk, conc>>

\* the save request ends: commit when it returned, rollback when it raised
EndSave ==
    /\ last.op = "validate"
    /\ IF last.val.res = "ok"
       THEN committed' = db /\ db' = db
       ELSE db' = committed /\ committed' = committed
    /\ last' = NoCall
    /\ UNCHANGED <<workflow, message_log, nCalls, bulk, conc>>

SaveNext ==
    \/ \E user \in {"u1", "u2"}, state \in SaveStates, action \in {NoneV, "Reject"},
          has_before \in BOOLEAN : Save(user, state, action, has_before)
    \/ EndSave

SpecSave == SaveInit /\ [][SaveNext]_vars

----------------------------------------------------------------------------
(* Concurrent requests.  apply_workflow takes no lock: the requests of     *)
(* several approvers for one document run in transactions of their own,    *)
(* and the statements of one may fall between those of another.  A request *)
(* first reads (document, transition, authorization, count of the other    *)
(* users' open actions) and decides, then writes what it decided and       *)
(* commits.                                                                *)

\* the approvers of a behaviour: each holds an open action for d1 in Review
ApproverSets == {S \in SUBSET Users : Cardinality(S) >= 2}

ConcInit ==
    /\ workflow \in Workflows
    /\ \E flag \in BOOLEAN, S \in ApproverSets :
          /\ db = InitDb("u1", "Review", flag, "Workflow", S)
          /\ conc = [u \in S |-> [pc |-> "start", plan |-> NoOutcome]]
    /\ committed = db
    /\ message_log = << >>
    /\ last = NoCall
    /\ nCalls = 0
    /\ bulk = BulkIdle

\* the request of approver u reads the database and decides: the document
\* is loaded, the transition resolved, the authorization checked and the
\* other users' open actions are counted
ConcRead(u) ==
    /\ u \in DOMAIN conc
    /\ conc[u].pc = "start"
    /\ conc' = [conc EXCEPT ![u] =
                  [pc |-> "decided",
                   plan |-> apply_workflow(db, db.docs["d1"], u, "Approve", NoneV,
                                           NoneV, NoneV, NoneV, LifecycleOk)]]
    /\ UNCHANGED <<workflow, db, committed, message_log, last, nCalls, bulk>>

\* what the request writes, on the database as it is now, for the decision
\* it took when it read
ConcEffect(base, u, plan) ==
    IF plan.res # "ok" THEN base
    ELSE IF plan.branch = "gated"
         THEN GatedBranch(base, base.docs["d1"], u, plan.tr, NoneV, NoneV).db
         ELSE [base EXCEPT !.docs["d1"] = plan.doc,
                           !.comments["d1"] = @ + 1]

\* the request of approver u writes what it decided and commits
ConcWrite(u) ==
    /\ u \in DOMAIN conc
    /\ conc[u].pc = "decided"
    /\ db' = ConcEffect(db, u, conc[u].plan)
    /\ committed' = db'
    /\ conc' = [conc EXCEPT ![u].pc = "done"]
    /\ UNCHANGED <<workflow, message_log, last, nCalls, bulk>>

ConcNext ==
    \/ \E u \in Users : ConcRead(u)
    \/ \E u \in Users : ConcWrite(u)

SpecConc == ConcInit /\ [][ConcNext]_vars

----------------------------------------------------------------------------
(* Properties of single requests.  They are stated on the state right      *)
(* after the handler ran: last holds the request, last.pre the database    *)
(* before it, last.doc the document passed in, last.out what the call left *)

Applied == last.op = "apply"

\* the call got past transition resolution with a transition in hand
Resolved == Applied /\ last.out.tr # NoTransition

\* the call got past the authorization check
ReachedGate == Applied /\ last.out.branch \in {"gated", "advance"}

\* Open rows of users other than u for document d at state st
OthersOpen(actions, d, st, u) ==
    {i \in DOMAIN actions :
        /\ actions[i].reference_name = d
        /\ actions[i].workflow_state = st
        /\ actions[i].status = "Open"
        /\ actions[i].user # u}

\* the ledger after differs from before only in that u's Open rows for d
\* are Completed
OnlyCompleted(before, after, d, u) ==
    /\ Len(after) = Len(before)
    /\ \A i \in DOMAIN before :
          IF before[i].reference_name = d /\ before[i].user = u
             /\ before[i].status = "Open"
          THEN after[i] = [before[i] EXCEPT !.status = "Completed"]
          ELSE after[i] = before[i]

\* the call left the document and its persisted row as they were and
\* invoked no lifecycle operation
StateKept ==
    /\ last.out.op = "none"
    /\ last.out.doc = last.doc
    /\ last.out.db.docs = last.pre.docs

\* the call changed nothing at all
NothingChanged == StateKept /\ last.out.db = last.pre

AllModeNormal ==
    /\ ReachedGate
    /\ last.out.tr.multi_user_action_mode = "All"
    /\ ~is_pre_check_action(last.action_source)

\* C1 as stated: for an All-mode transition and a normal action source, the
\* call is gated (only the acting user's open action completed, state and
\* docstatus kept, no lifecycle operation) when other users hold open
\* actions at the document's current state, and otherwise the state field
\* becomes the transition's target state
C1_GateAtCurrentState ==
    AllModeNormal =>
        IF OthersOpen(last.pre.actions, last.d, last.doc.workflow_state, last.user) # {}
        THEN /\ last.out.branch = "gated"
             /\ StateKept
             /\ OnlyCompleted(last.pre.actions, last.out.db.actions, last.d, last.user)
        ELSE last.out.doc.workflow_state = last.out.tr.next_state

\* C1 amended: the open actions counted are those at the transition's source
\* state, which is the document's current state whenever the transition was
\* resolved from the action; and when the state advances it becomes the
\* transition's target state, or the initial state for the action "Reject"
C1_GateAtTransitionState ==
    AllModeNormal =>
        /\ (last.transition_name = NoneV => last.out.tr.state = last.doc.workflow_state)
        /\ IF OthersOpen(last.pre.actions, last.d, last.out.tr.state, last.user) # {}
           THEN /\ last.out.branch = "gated"
                /\ last.out.res = "ok"
                /\ StateKept
                /\ OnlyCompleted(last.pre.actions, last.out.db.actions, last.d, last.user)
           ELSE /\ last.out.branch = "advance"
                /\ last.out.doc.workflow_state =
                      IF last.action = "Reject" THEN workflow.states[1].state
                      ELSE last.out.tr.next_state

\* an All-mode call that was gated by another user's open action
C1_Witness ==
    /\ AllModeNormal
    /\ last.out.branch = "gated"
    /\ \E i \in DOMAIN last.pre.actions :
          /\ last.pre.actions[i].user = last.user
          /\ last.pre.actions[i].status = "Open"
          /\ last.out.db.actions[i].status = "Completed"

\* the pairs (docstatus, new docstatus) for which a lifecycle operation exists
LegalPairs == {<<0, 0>>, <<0, 1>>, <<1, 1>>, <<1, 2>>}

\* the pair the lifecycle step of the call was decided on
LifecyclePair ==
    << last.doc.docstatus,
       DocStatusOf(IF last.action = "Reject" THEN workflow.states[1].state
                   ELSE last.out.tr.next_state) >>

\* C2: a call that reaches the lifecycle step with a pair outside the table
\* raises the illegal-lifecycle error, invokes no lifecycle operation and
\* mutates nothing: the document's state field and update field hold the
\* values they had before the call
C2_IllegalPairNoMutation ==
    (Applied /\ last.out.branch = "advance" /\ LifecyclePair \notin LegalPairs) =>
        /\ last.out.res = "IllegalDocStatus"
        /\ last.out.op = "none"
        /\ last.out.db = last.pre
        /\ last.out.doc.workflow_state = last.doc.workflow_state
        /\ last.out.doc.upd = last.doc.upd

\* the part of C2 the code keeps: the error is raised exactly for the pairs
\* outside the table, no lifecycle operation runs and the database is as
\* before (the document object passed in has its fields already set)
C2_IllegalPairNothingWritten ==
    (Applied /\ last.out.branch = "advance") =>
        /\ (last.out.res = "IllegalDocStatus") = (LifecyclePair \notin LegalPairs)
        /\ (last.out.res = "IllegalDocStatus" =>
               last.out.op = "none" /\ last.out.db = last.pre)

\* C3: a call on a resolved transition is denied exactly when the acting
\* user is not the Administrator, the transition does not allow self
\* approval and the acting user owns the document; a denied call changes
\* no action record and no document and invokes no lifecycle operation
C3_SelfApproval ==
    Resolved =>
        /\ (last.out.res = "SelfApprovalError") =
             (/\ last.user # "Administrator"
              /\ last.out.tr.allow_self_approval = 0
              /\ last.user = last.doc.owner)
        /\ (last.out.res = "SelfApprovalError" => NothingChanged)
        /\ (last.out.res # "SelfApprovalError" => ReachedGate)

\* the owner, holding an open action, was denied a transition without self
\* approval
C3_Witness ==
    /\ Resolved
    /\ last.out.res = "SelfApprovalError"
    /\ last.user = last.doc.owner
    /\ \E i \in DOMAIN last.pre.actions :
          /\ last.pre.actions[i].user = last.user
          /\ last.pre.actions[i].reference_name = last.d
          /\ last.pre.actions[i].status = "Open"

\* C4: whenever a call advances the state with the action "Reject", the
\* state field is set to the first state of the definition, whatever the
\* target of the transition; a successful call persists that state
C4_RejectToInitial ==
    (Applied /\ last.out.branch = "advance" /\ last.action = "Reject") =>
        /\ last.out.doc.workflow_state = workflow.states[1].state
        /\ (last.out.res = "ok" =>
               last.out.db.docs[last.d].workflow_state = workflow.states[1].state)

\* a successful Reject through a transition that declares another target
C4_Witness ==
    /\ Applied
    /\ last.out.branch = "advance"
    /\ last.action = "Reject"
    /\ last.out.res = "ok"
    /\ last.out.tr.next_state # workflow.states[1].state
    /\ last.doc.workflow_state # workflow.states[1].state

\* the condition of transition t evaluates, and evaluates true, on doc
CondTrue(t, doc) ==
    LET c == evaluate_condition(t.condition, doc) IN ~c.err /\ c.val

CondFails(t, doc) == evaluate_condition(t.condition, doc).err

\* the transitions of the definition from state st whose condition holds,
\* in definition order
Available(doc, st) ==
    SelectSeq(workflow.transitions, LAMBDA t : t.state = st /\ CondTrue(t, doc))

Listed == last.op = "get_transitions"

\* C5: for a persisted document with a non-empty state field,
\* get_transitions returns exactly the transitions of the definition whose
\* source state is the document's state and whose condition is true, in
\* definition order; an empty list is a normal result; the only failure is
\* a condition of such a transition that does not evaluate
C5_ExactlyAvailable ==
    (Listed /\ ~last.doc.is_new /\ Truthy(last.doc.workflow_state)) =>
        LET st == last.doc.workflow_state
            broken == \E i \in DOMAIN workflow.transitions :
                         /\ workflow.transitions[i].state = st
                         /\ CondFails(workflow.transitions[i], last.doc)
        IN  /\ last.gt.res = IF broken THEN "ConditionError" ELSE "ok"
            /\ (last.gt.res = "ok" =>
                   /\ last.gt.transitions = Available(last.doc, st)
                   /\ \A i \in DOMAIN last.gt.transitions :
                         /\ last.gt.transitions[i].state = st
                         /\ CondTrue(last.gt.transitions[i], last.doc))

\* a listing that kept two transitions of the state and dropped another of
\* the same state for its condition
C5_Witness ==
    /\ Listed
    /\ last.gt.res = "ok"
    /\ Len(last.gt.transitions) = 2
    /\ \E i \in DOMAIN workflow.transitions :
          /\ workflow.transitions[i].state = last.doc.workflow_state
          /\ ~CondTrue(workflow.transitions[i], last.doc)

\* the call resolves its transition from the action, on a document that
\* has a workflow and a state whose transitions' conditions all evaluate
ByAction ==
    /\ Applied
    /\ last.transition_name = NoneV
    /\ last.action \notin {"Start", "Forward", "Add Additional Check"}
    /\ last.doc.workflow_def # NoneV
    /\ Truthy(last.doc.workflow_state)
    /\ \A i \in DOMAIN workflow.transitions :
          workflow.transitions[i].state = last.doc.workflow_state
             => ~CondFails(workflow.transitions[i], last.doc)

\* the available transitions of the call's document that carry its action
Matches ==
    SelectSeq(Available(last.doc, last.doc.workflow_state),
              LAMBDA t : t.action = last.action)

\* C6 as stated: without an explicit transition and for an action other
\* than "Start", the effective transition is the first available transition
\* carrying the action; with no match the call fails with
\* WorkflowTransitionError and changes nothing
C6_FirstMatchWins ==
    ByAction =>
        IF Matches = << >>
        THEN last.out.res = "WorkflowTransitionError" /\ NothingChanged
        ELSE last.out.tr = Matches[1]

\* C6 amended: the effective transition is the last available transition
\* carrying the action (last match wins); with no match the call fails with
\* WorkflowTransitionError and changes nothing
C6_LastMatchWins ==
    ByAction =>
        IF Matches = << >>
        THEN last.out.res = "WorkflowTransitionError" /\ NothingChanged
        ELSE last.out.tr = Matches[Len(Matches)]

\* a call with two matching transitions, which took the second one
C6_Witness ==
    /\ ByAction
    /\ Len(Matches) = 2
    /\ Matches[1] # Matches[2]
    /\ last.out.tr = Matches[2]
    /\ last.out.res = "ok"

\* C10: "Forward" and "Add Additional Check" complete the acting user's
\* open actions, create one open action for the next user, append one
\* audit comment and return; the document, its state field and docstatus
\* are untouched and no lifecycle operation is invoked
C10_ForwardBypasses ==
    (Applied /\ last.action \in {"Forward", "Add Additional Check"}
             /\ last.doc.workflow_def # NoneV) =>
        LET before == last.pre.actions
            after == last.out.db.actions
        IN  /\ last.out.res = "ok"
            /\ StateKept
            /\ Len(after) = Len(before) + 1
            /\ OnlyCompleted(before, SubSeq(after, 1, Len(before)), last.d, last.user)
            /\ after[Len(after)].user = last.next_user
            /\ after[Len(after)].status = "Open"
            /\ after[Len(after)].reference_name = last.d
            /\ last.out.db.comments =
                 [last.pre.comments EXCEPT ![last.d] = @ + 1]

\* a Forward by a user who held an open action on a document not in the
\* initial state
C10_Witness ==
    /\ Applied
    /\ last.action = "Forward"
    /\ last.out.res = "ok"
    /\ last.doc.workflow_state = "Approved"
    /\ \E i \in DOMAIN last.pre.actions :
          /\ last.pre.actions[i].user = last.user
          /\ last.pre.actions[i].reference_name = last.d
          /\ last.pre.actions[i].status = "Open"
          /\ last.out.db.actions[i].status = "Completed"

----------------------------------------------------------------------------
(* Properties of the bulk executor.  bulk.items holds, for every document  *)
(* attempted so far, whether apply_workflow returned (ok), the committed   *)
(* database before the item (before), the database apply_workflow left     *)
(* (work), and the running and the committed database after the item       *)

Reported == bulk.pc = "done"

\* C7: the documents are attempted in input order, every one of them; an
\* item's work is committed when its apply_workflow returned and rolled back
\* when it raised, before the next item starts; a failed item leaves the
\* commits of the items before it in place and the loop goes on
C7_ItemsIsolated ==
    /\ Len(bulk.items) = bulk.idx - 1
    /\ (Reported => Len(bulk.items) = Len(bulk.docnames))
    /\ \A k \in DOMAIN bulk.items :
          LET it == bulk.items[k]
          IN  /\ it.docname = bulk.docnames[k]
              /\ it.committed = IF it.ok THEN it.work ELSE it.before
              /\ it.db = it.committed
              /\ (k > 1 => it.before = bulk.items[k - 1].committed)
    /\ (bulk.items # << >> =>
          /\ committed = bulk.items[Len(bulk.items)].committed
          /\ db = committed)

\* a batch of three whose first and third item were committed with changes
\* and whose second item failed after writing, and was rolled back
C7_Witness ==
    /\ Reported
    /\ Len(bulk.items) = 3
    /\ bulk.items[1].ok /\ bulk.items[1].committed # bulk.items[1].before
    /\ ~bulk.items[2].ok /\ bulk.items[2].work # bulk.items[2].before
    /\ bulk.items[3].ok /\ bulk.items[3].committed # bulk.items[3].before

SomeOk == \E k \in DOMAIN bulk.items : bulk.items[k].ok

SomeFailed == \E k \in DOMAIN bulk.items : ~bulk.items[k].ok

\* C8: the indicator of the report of a batch is green when every item
\* succeeded, red when every item failed, and orange exactly when at least
\* one item succeeded and at least one failed
C8_SeverityByOutcome ==
    (Reported /\ bulk.docnames # << >>) =>
        /\ (~SomeFailed => bulk.indicator = "green")
        /\ (~SomeOk => bulk.indicator = "red")
        /\ (bulk.indicator = "orange") = (SomeOk /\ SomeFailed)

\* what the indicator does reflect: the two logs of the report
C8_SeverityByLogs ==
    Reported =>
        bulk.indicator =
            IF bulk.failed_transactions # << >> /\ bulk.successful_transactions # << >>
            THEN "orange"
            ELSE IF bulk.failed_transactions # << >> THEN "red" ELSE "green"

----------------------------------------------------------------------------
(* Properties of concurrent requests *)

\* every approver's request is over, returned normally and went through an
\* All-mode transition
AllApproved ==
    /\ conc # << >>
    /\ \A u \in DOMAIN conc :
          /\ conc[u].pc = "done"
          /\ conc[u].plan.res = "ok"
          /\ conc[u].plan.tr.multi_user_action_mode = "All"

\* C9: under every interleaving of the approvers' requests for an All-mode
\* transition, once every approver has applied the action the state has
\* advanced, by exactly one of the requests, and the document is not left
\* in the old state with no open action remaining
C9_AllApprovedAdvancesOnce ==
    AllApproved =>
        /\ db.docs["d1"].workflow_state # "Review"
        /\ Cardinality({u \in DOMAIN conc : conc[u].plan.branch = "advance"}) = 1

----------------------------------------------------------------------------
(* Properties of the save-time validator, over SpecSave *)

\* a save of a document that has a workflow
Validating == last.op = "validate" /\ last.doc.workflow_def # NoneV

InitialState == workflow.states[1].state

\* the state the document had before the save; a missing one counts as
\* the initial state
PreviousState ==
    IF last.before.exists /\ Truthy(last.before.doc.workflow_state)
    THEN last.before.doc.workflow_state
    ELSE InitialState

\* the state the save asks for; an empty one is filled with the initial
\* state
CurrentState ==
    IF Truthy(last.doc.workflow_state) THEN last.doc.workflow_state ELSE InitialState

OwnerFirstSave == last.user = last.doc.owner /\ PreviousState = InitialState

RejectedToInitial == last.doc.workflow_action = "Reject" /\ CurrentState = InitialState

Recognized(state) == \E i \in DOMAIN workflow.states : workflow.states[i].state = state

\* a declared transition from the previous to the current state whose
\* condition is true on the snapshot
SnapshotTransition ==
    \E i \in DOMAIN workflow.transitions :
        /\ workflow.transitions[i].state = PreviousState
        /\ workflow.transitions[i].next_state = CurrentState
        /\ CondTrue(workflow.transitions[i], last.before.doc)

\* the transitions of the snapshot can be listed: its state field is set
\* and the conditions of the transitions from that state evaluate
SnapshotResolvable ==
    /\ Truthy(last.before.doc.workflow_state)
    /\ \A i \in DOMAIN workflow.transitions :
          workflow.transitions[i].state = last.before.doc.workflow_state
             => ~CondFails(workflow.transitions[i], last.before.doc)

\* a save the two unconditional returns do not cover and that changes a
\* recognized previous state
TransitionChecked ==
    /\ Validating
    /\ ~OwnerFirstSave
    /\ ~RejectedToInitial
    /\ Recognized(PreviousState)
    /\ PreviousState # CurrentState

\* the reading of C11 in which every refusal is a WorkflowPermissionError,
\* whatever the snapshot holds
C11_AlwaysPermissionError ==
    (Validating /\ ~OwnerFirstSave /\ ~RejectedToInitial
        /\ PreviousState # CurrentState) =>
        /\ (last.val.res = "ok") = (last.before.exists /\ SnapshotTransition)
        /\ (last.val.res # "ok" => last.val.res = "WorkflowPermissionError")

\* C11: when neither unconditional return applies and the (recognized)
\* previous state differs from the current state, the save is accepted only
\* if the snapshot exists and a transition from the previous to the current
\* state is available on it; without a snapshot, or without such a
\* transition among those listed for the snapshot, it fails with
\* WorkflowPermissionError; when the transitions of the snapshot cannot be
\* listed the save fails with the error of the listing
C11_TransitionOnSnapshot ==
    TransitionChecked =>
        /\ (last.val.res = "ok" => last.before.exists /\ SnapshotTransition)
        /\ (~last.before.exists => last.val.res = "WorkflowPermissionError")
        /\ (last.before.exists /\ SnapshotResolvable =>
               last.val.res = IF SnapshotTransition THEN "ok"
                              ELSE "WorkflowPermissionError")
        /\ (last.before.exists /\ ~SnapshotResolvable =>
               last.val.res \in {"WorkflowStateError", "ConditionError"})
        /\ (last.val.res # "ok" => db = last.pre)

\* a save that changed the state, was covered by neither unconditional
\* return, and was accepted and written for a declared transition of the
\* snapshot
C11_Witness ==
    /\ TransitionChecked
    /\ last.before.exists
    /\ SnapshotResolvable
    /\ SnapshotTransition
    /\ last.val.res = "ok"
    /\ db.docs["d1"].workflow_state = CurrentState

\* C12: the save is accepted without a look at the transitions in exactly
\* two cases: the session user is the owner and the previous state is the
\* initial state (a missing previous state counts as initial), or the
\* recorded action is "Reject" and the current state is the initial state;
\* in every other case the previous state must be a state of the workflow
\* and a change of state must pass the test of the transitions
C12_UnconditionalReturns ==
    Validating =>
        /\ (last.val.path \in {"owner", "reject"}) = (OwnerFirstSave \/ RejectedToInitial)
        /\ (OwnerFirstSave \/ RejectedToInitial =>
               /\ last.val.res = "ok"
               /\ ~last.val.looked
               /\ db.docs["d1"].workflow_state = CurrentState)
        /\ (~(OwnerFirstSave \/ RejectedToInitial) =>
               /\ (~Recognized(PreviousState) => last.val.res = "ValidationError")
               /\ (Recognized(PreviousState) /\ PreviousState = CurrentState =>
                      last.val.res = "ok" /\ ~last.val.looked)
               /\ (Recognized(PreviousState) /\ PreviousState # CurrentState =>
                      /\ last.val.looked = last.before.exists
                      /\ (last.val.res = "ok" => SnapshotTransition)))

\* the owner's save from the initial state to a state no transition leads
\* to from there, accepted without a look at the transitions
C12_Witness ==
    /\ Validating
    /\ OwnerFirstSave
    /\ ~RejectedToInitial
    /\ last.before.exists
    /\ PreviousState # CurrentState
    /\ ~SnapshotTransition
    /\ last.val.res = "ok"
    /\ last.val.path = "owner"

----------------------------------------------------------------------------
(* Properties of sequences of requests, over Spec *)

\* a request to apply_workflow for a document that has a workflow
AppliedWithWorkflow == Applied /\ last.doc.workflow_def # NoneV

\* the steps the lifecycle status may take in one call
StatusStep(a, b) == b = a \/ (a = 0 /\ b = 1) \/ (a = 1 /\ b = 2)

\* C13: over every sequence of calls the lifecycle status never decreases
\* and never goes from 0 to 2: a call leaves it as it was or takes exactly
\* one of the steps 0 to 1, by submit, and 1 to 2, by cancel; and what is
\* committed takes the same steps
C13_StatusMonotonic ==
    /\ Applied =>
          LET a == last.doc.docstatus
              b == last.out.doc.docstatus
              c == last.out.db.docs[last.d].docstatus
          IN  /\ StatusStep(a, b)
              /\ StatusStep(a, c)
              /\ (b # a => last.out.op = IF a = 0 THEN "submit" ELSE "cancel")
              /\ (c # a => last.out.op = IF a = 0 THEN "submit" ELSE "cancel")
    /\ \A d \in DocIds : StatusStep(committed.docs[d].docstatus, db.docs[d].docstatus)

\* a second call that cancelled the document an earlier call had moved on
C13_Witness ==
    /\ Applied
    /\ nCalls = 2
    /\ last.pre.docs[last.d].workflow_action # NoneV
    /\ last.doc.docstatus = 1
    /\ last.out.res = "ok"
    /\ last.out.op = "cancel"
    /\ last.out.db.docs[last.d].docstatus = 2

\* the call carries the action source of a pre-check
PreCheckSource == last.action_source \in {"Pre-Check", "Add Additional Check"}

\* a call with the action "Start" and no explicit transition
Started ==
    /\ AppliedWithWorkflow
    /\ last.action = "Start"
    /\ last.transition_name = NoneV

\* C14 as stated: the pseudo-transition of "Start" leads to the target
\* state of the first declared transition; the call is never refused for
\* self-approval, never gated by other users' open actions, and on success
\* the state field holds that target state
C14_StartToFirstTarget ==
    Started =>
        /\ last.out.res # "SelfApprovalError"
        /\ (~PreCheckSource => last.out.branch = "advance")
        /\ (last.out.branch = "advance" /\ last.out.res = "ok" =>
               last.out.doc.workflow_state = workflow.transitions[1].next_state)

\* C14 amended: the pseudo-transition of "Start" leads to the SOURCE state
\* of the first declared transition, with self-approval allowed and mode
\* Any; the call is never refused for self-approval, never gated by other
\* users' open actions, and when it advances with success the state field
\* holds that source state
C14_StartToFirstSource ==
    Started =>
        /\ last.out.res # "SelfApprovalError"
        /\ last.out.tr.allow_self_approval = 1
        /\ last.out.tr.multi_user_action_mode = "Any"
        /\ (~PreCheckSource => last.out.branch = "advance")
        /\ (last.out.branch = "advance" /\ last.out.res = "ok" =>
               /\ last.out.doc.workflow_state = workflow.transitions[1].state
               /\ last.out.db.docs[last.d].workflow_state = workflow.transitions[1].state)

\* the owner starts a document in Review while others hold open actions
\* for it, and the document lands in the source state of the first
\* transition, which is not that transition's target
C14_Witness ==
    /\ Started
    /\ last.user = last.doc.owner
    /\ last.user # "Administrator"
    /\ OthersOpen(last.pre.actions, last.d, last.doc.workflow_state, last.user) # {}
    /\ last.out.res = "ok"
    /\ last.out.branch = "advance"
    /\ last.out.doc.workflow_state = workflow.transitions[1].state
    /\ last.out.doc.workflow_state # last.doc.workflow_state
    /\ workflow.transitions[1].state # workflow.transitions[1].next_state

\* the ledger after is the ledger before with u's Open rows for d
\* Completed, followed by the rows of more
CompletedThen(before, after, d, u, more) ==
    /\ Len(after) = Len(before) + Len(more)
    /\ OnlyCompleted(before, SubSeq(after, 1, Len(before)), d, u)
    /\ SubSeq(after, Len(before) + 1, Len(after)) = more

\* C16: with the action source Pre-Check or Add Additional Check the state
\* never advances; a call that gets past resolution and authorization,
\* whatever the mode of the transition and the open actions of others,
\* completes the acting user's open action, adds one comment, keeps state
\* and docstatus, and creates a follow-up open action for the previous user
\* exactly when one was designated
C16_PreCheckNeverAdvances ==
    (Applied /\ PreCheckSource) =>
        /\ last.out.op = "none"
        /\ last.out.branch # "advance"
        /\ last.out.db.docs = last.pre.docs
        /\ (last.out.res = "ok" /\ last.out.branch = "gated" =>
               /\ StateKept
               /\ last.out.db.comments[last.d] = last.pre.comments[last.d] + 1
               /\ CompletedThen(last.pre.actions, last.out.db.actions, last.d, last.user,
                     IF Truthy(last.previous_user)
                     THEN << ActionRow(last.d, last.doc.workflow_state,
                                       last.previous_user, "Open", "Normal", last.user) >>
                     ELSE << >>))
        /\ (last.out.res \notin {"NoWorkflow", "DoesNotExistError", "IndexError",
                                 "WorkflowStateError", "ConditionError",
                                 "WorkflowTransitionError", "SelfApprovalError"} =>
               last.out.res = "ok" /\ last.out.branch = "gated")

\* an additional-check call on an Any-mode transition, nobody else holding
\* an open action: it would have advanced with a normal source
C16_Witness ==
    /\ Applied
    /\ last.action_source = "Add Additional Check"
    /\ ~Truthy(last.previous_user)
    /\ last.out.res = "ok"
    /\ last.out.branch = "gated"
    /\ last.out.tr.multi_user_action_mode = "Any"
    /\ last.out.tr.next_state # last.doc.workflow_state
    /\ OthersOpen(last.pre.actions, last.d, last.out.tr.state, last.user) = {}
    /\ \E i \in DOMAIN last.pre.actions :
          /\ last.pre.actions[i].reference_name = last.d
          /\ last.pre.actions[i].user = last.user
          /\ last.pre.actions[i].status = "Open"

\* a declared transition of the workflow from state s to state t whose
\* condition holds on doc
Declared(s, t, doc) ==
    \E i \in DOMAIN workflow.transitions :
        /\ workflow.transitions[i].state = s
        /\ workflow.transitions[i].next_state = t
        /\ CondTrue(workflow.transitions[i], doc)

\* a call that changed the state field through the lifecycle step
StateChanged ==
    /\ AppliedWithWorkflow
    /\ last.out.op # "none"
    /\ last.out.doc.workflow_state # last.doc.workflow_state

\* C17: every change of state by a call whose action is neither "Reject"
\* nor "Start" follows a declared transition from the state the document
\* had before the call, whose condition holds on the document; also when
\* the transition is named explicitly
C17_ChangeFollowsDeclared ==
    (StateChanged /\ last.action \notin {"Reject", "Start"}) =>
        Declared(last.doc.workflow_state, last.out.doc.workflow_state, last.doc)

\* what does hold: the same, for the calls that name no transition
C17_ResolvedFollowsDeclared ==
    (StateChanged /\ last.action \notin {"Reject", "Start"}
        /\ last.transition_name = NoneV) =>
        /\ Declared(last.doc.workflow_state, last.out.doc.workflow_state, last.doc)
        /\ last.out.tr.state = last.doc.workflow_state
        /\ last.out.tr.action = last.action

\* the docstatus the workflow declares for the state a document holds
Aligned(doc) ==
    \E i \in DOMAIN workflow.states :
        /\ workflow.states[i].state = doc.workflow_state
        /\ workflow.states[i].doc_status =
              (CASE doc.docstatus = 0 -> "0" [] doc.docstatus = 1 -> "1" [] OTHER -> "2")

\* C19: from a document whose docstatus is the one declared for its state,
\* every call that returns normally, having advanced the state or not,
\* leaves a document whose docstatus is again the one declared for the
\* state it holds
C19_StateAlignedWithStatus ==
    (AppliedWithWorkflow /\ Aligned(last.doc) /\ last.out.res = "ok") =>
        /\ Aligned(last.out.doc)
        /\ Aligned(last.out.db.docs[last.d])

\* a call that moved the document to a state of another docstatus
C19_Witness ==
    /\ AppliedWithWorkflow
    /\ Aligned(last.doc)
    /\ last.out.res = "ok"
    /\ last.out.branch = "advance"
    /\ last.out.doc.docstatus # last.doc.docstatus
    /\ last.out.doc.workflow_state # last.doc.workflow_state

\* C20: once the docstatus of a document is 2, no call invokes a lifecycle
\* operation on it; an attempt to advance the state ends in the error of
\* the lifecycle table; the persisted state and docstatus do not change
\* any more
C20_CancelledIsTerminal ==
    /\ (Applied /\ last.doc.docstatus = 2) =>
          /\ last.out.op = "none"
          /\ last.out.db.docs = last.pre.docs
          /\ (last.out.branch = "advance" => last.out.res = "IllegalDocStatus")
    /\ \A d \in DocIds :
          committed.docs[d].docstatus = 2 => db.docs[d] = committed.docs[d]

\* a second call that tried to move on the document a first call had
\* cancelled
C20_Witness ==
    /\ Applied
    /\ nCalls = 2
    /\ last.pre.docs[last.d].workflow_action = "Cancel"
    /\ last.doc.docstatus = 2
    /\ last.out.branch = "advance"
    /\ last.out.res = "IllegalDocStatus"

----------------------------------------------------------------------------
(* Properties of the report and of failing conditions, over SpecBulk *)

\* the number of entries the log holds for a document
Entries(log, docname) == IF docname \in DOMAIN log THEN Len(log[docname]) ELSE 0

\* the logs as they were before item k
LogsBefore(k) ==
    IF k = 1 THEN [failed_transactions |-> << >>, successful_transactions |-> << >>]
    ELSE [failed_transactions |-> bulk.items[k - 1].failed_transactions,
          successful_transactions |-> bulk.items[k - 1].successful_transactions]

\* item k added an entry for its document to the failed log
LoggedFailed(k) ==
    Entries(bulk.items[k].failed_transactions, bulk.items[k].docname)
        > Entries(LogsBefore(k).failed_transactions, bulk.items[k].docname)

\* item k added an entry for its document to the successful log
LoggedSuccessful(k) ==
    Entries(bulk.items[k].successful_transactions, bulk.items[k].docname)
        > Entries(LogsBefore(k).successful_transactions, bulk.items[k].docname)

\* a condition of a transition from the document's state fails to evaluate
Broken(doc) ==
    /\ doc.workflow_def # NoneV
    /\ Truthy(doc.workflow_state)
    /\ \E i \in DOMAIN workflow.transitions :
          /\ workflow.transitions[i].state = doc.workflow_state
          /\ CondFails(workflow.transitions[i], doc)

\* C15: a condition that fails to evaluate is an error of the call, not a
\* condition that is false: for a document with such a condition among the
\* transitions of its state, get_transitions raises it instead of
\* returning a list, apply_workflow raises it instead of reporting that no
\* action is valid, and changes nothing; the loop of
\* bulk_workflow_approval catches it, logs a failed entry for the item,
\* rolls the item back and goes on
C15_ConditionErrorIsHard ==
    /\ \A d \in DocIds :
          Broken(db.docs[d]) =>
             get_transitions(db.docs[d], workflow).res = "ConditionError"
    /\ \A k \in DOMAIN bulk.items :
          LET it == bulk.items[k]
          IN  (Broken(it.before.docs[it.docname]) /\ bulk.transition = NoneV) =>
                 /\ it.res = "ConditionError"
                 /\ ~it.ok
                 /\ it.work = it.before
                 /\ it.committed = it.before
                 /\ LoggedFailed(k)
                 /\ ~LoggedSuccessful(k)
                 /\ it.docname \in DOMAIN bulk.failed_transactions
                 /\ (Reported => Len(bulk.items) = Len(bulk.docnames))

\* a batch whose second item met a condition that does not evaluate, after
\* the first item had succeeded, and whose third item was still attempted
C15_Witness ==
    /\ Reported
    /\ Len(bulk.items) = 3
    /\ bulk.transition = NoneV
    /\ bulk.items[1].ok
    /\ Broken(bulk.items[2].before.docs[bulk.items[2].docname])
    /\ bulk.items[2].res = "ConditionError"
    /\ LoggedFailed(2)
    /\ bulk.items[3].ok

\* the docnames of the batch are pairwise different
DistinctBatch ==
    \A i, j \in DOMAIN bulk.docnames : bulk.docnames[i] = bulk.docnames[j] => i = j

\* C18: in the report every document of the batch is in exactly one of the
\* two logs: in the failed log exactly when its apply_workflow raised and
\* its work was rolled back, in the successful log exactly when its work
\* was committed
C18_ExactlyOneLog ==
    (Reported /\ DistinctBatch) =>
        \A k \in DOMAIN bulk.items :
            LET it == bulk.items[k]
                rolled_back == ~it.ok /\ it.committed = it.before
                was_committed == it.ok /\ it.committed = it.work
            IN  /\ (it.docname \in DOMAIN bulk.failed_transactions) = rolled_back
                /\ (it.docname \in DOMAIN bulk.successful_transactions) = was_committed
                /\ ~(/\ it.docname \in DOMAIN bulk.failed_transactions
                     /\ it.docname \in DOMAIN bulk.successful_transactions)

\* what does hold: an item during which no informational message was
\* printed is entered in one log, the one of its outcome
C18_SilentItemsOneLog ==
    \A k \in DOMAIN bulk.items :
        LET it == bulk.items[k]
        IN  (\A i \in DOMAIN it.msgs : it.msgs[i].raise_exception) =>
               /\ LoggedFailed(k) = ~it.ok
               /\ LoggedSuccessful(k) = it.ok

====
